---------------------------- MODULE Spec2Model ----------------------------
(***************************************************************************)
(* The trading dashboard (TradingPage.tsx) and its REST client             *)
(* (api/trading.ts) as a state machine.                                    *)
(*                                                                         *)
(* One action is one task of the browser's event loop: a user event        *)
(* handler up to its first await, the arrival of an HTTP response together *)
(* with every promise continuation it releases (micro-tasks run to         *)
(* completion before the next task), or a setTimeout callback.             *)
(*                                                                         *)
(* Strings the code inspects are sequences of one-character strings, so    *)
(* that trim, toUpperCase, parseInt and parseFloat are computed.  Numbers  *)
(* produced by parseFloat are kept in hundredths (90.5 is 9050).           *)
(***************************************************************************)
EXTENDS Integers, Sequences, FiniteSets, TLC

(***************************************************************************)
(* Bounds of the model.                                                    *)
(***************************************************************************)
\* User events in one run: clicks on buy, sell and save, and changes of an
\* input (onChange events).
MaxEvents == 4

\* Calls of the Trading Client in one run of the client on its own.
MaxCalls == 2

(***************************************************************************)
(* JavaScript values.                                                      *)
(***************************************************************************)
\* parseInt / parseFloat yield a number or NaN.
NaN == [nan |-> TRUE, v |-> 0]

Num(n) == [nan |-> FALSE, v |-> n]

isNaN(x) == x.nan

Digits == {"0", "1", "2", "3", "4", "5", "6", "7", "8", "9"}

DigitVal(c) ==
  CASE c = "0" -> 0 [] c = "1" -> 1 [] c = "2" -> 2 [] c = "3" -> 3
    [] c = "4" -> 4 [] c = "5" -> 5 [] c = "6" -> 6 [] c = "7" -> 7
    [] c = "8" -> 8 [] c = "9" -> 9

\* The longest prefix of s made of digits.
RECURSIVE DigitPrefix(_)
DigitPrefix(s) ==
  IF s = <<>> \/ Head(s) \notin Digits THEN <<>>
  ELSE <<Head(s)>> \o DigitPrefix(Tail(s))

RECURSIVE DigitsValue(_)
DigitsValue(s) ==
  IF s = <<>> THEN 0 ELSE DigitsValue(SubSeq(s, 1, Len(s) - 1)) * 10 + DigitVal(s[Len(s)])

\* String.prototype.trim: leading and trailing white space removed.
RECURSIVE TrimLeft(_)
TrimLeft(s) == IF s # <<>> /\ Head(s) = " " THEN TrimLeft(Tail(s)) ELSE s

RECURSIVE TrimRight(_)
TrimRight(s) ==
  IF s # <<>> /\ s[Len(s)] = " " THEN TrimRight(SubSeq(s, 1, Len(s) - 1)) ELSE s

trim(s) == TrimRight(TrimLeft(s))

UpperChar(c) == CASE c = "a" -> "A" [] c = "b" -> "B" [] OTHER -> c

\* String.prototype.toUpperCase.
toUpperCase(s) == [i \in 1..Len(s) |-> UpperChar(s[i])]

\* parseInt(s, 10): white space skipped, an optional sign, then the digits up
\* to the first character that is not one; NaN when there is no digit.
parseInt(s) ==
  LET t    == TrimLeft(s)
      neg  == t # <<>> /\ Head(t) = "-"
      body == IF t # <<>> /\ Head(t) \in {"-", "+"} THEN Tail(t) ELSE t
      ds   == DigitPrefix(body)
  IN IF ds = <<>> THEN NaN
     ELSE Num(IF neg THEN 0 - DigitsValue(ds) ELSE DigitsValue(ds))

\* parseFloat(s), in hundredths: as parseInt, plus a fraction after a point
\* (two fractional digits are kept, which the inputs of the model never exceed).
parseFloat(s) ==
  LET t     == TrimLeft(s)
      neg   == t # <<>> /\ Head(t) = "-"
      body  == IF t # <<>> /\ Head(t) \in {"-", "+"} THEN Tail(t) ELSE t
      ds    == DigitPrefix(body)
      rest  == SubSeq(body, Len(ds) + 1, Len(body))
      fs    == IF rest # <<>> /\ Head(rest) = "." THEN DigitPrefix(Tail(rest)) ELSE <<>>
      f2    == SubSeq(fs \o <<"0", "0">>, 1, 2)
      abs   == DigitsValue(ds) * 100 + DigitsValue(f2)
  IN IF ds = <<>> /\ fs = <<>> THEN NaN
     ELSE Num(IF neg THEN 0 - abs ELSE abs)

DigitChar(d) ==
  CASE d = 0 -> "0" [] d = 1 -> "1" [] d = 2 -> "2" [] d = 3 -> "3" [] d = 4 -> "4"
    [] d = 5 -> "5" [] d = 6 -> "6" [] d = 7 -> "7" [] d = 8 -> "8" [] d = 9 -> "9"

RECURSIVE NatToString(_)
NatToString(n) ==
  IF n < 10 THEN <<DigitChar(n)>> ELSE NatToString(n \div 10) \o <<DigitChar(n % 10)>>

\* Number.prototype.toString of a non-negative number kept in hundredths.
toString(h) ==
  LET whole == NatToString(h \div 100)
      frac  == h % 100
  IN IF frac = 0 THEN whole
     ELSE IF frac % 10 = 0 THEN whole \o <<".", DigitChar(frac \div 10)>>
     ELSE whole \o <<".", DigitChar(frac \div 10), DigitChar(frac % 10)>>

\* A string is truthy when it is not empty.
Truthy(s) == s # <<>>


(***************************************************************************)
(* The Trading Client (api/trading.ts).  An operation builds one HTTP      *)
(* request; the operators below give that request.                         *)
(***************************************************************************)
EmptyBody == [k \in {} |-> 0]

\* The optional key k of a body, present when the request has field f.
Optional(request, f, k) ==
  IF f \in DOMAIN request THEN (k :> request[f]) ELSE EmptyBody

\* The optional key k of a body, present when the request's field f is truthy.
OptionalIfTruthy(request, f, k) ==
  IF f \in DOMAIN request /\ request[f] # Num(0) /\ ~isNaN(request[f])
    THEN (k :> request[f]) ELSE EmptyBody

\* Faulty placeOrder: "if (request.price)" in place of "!== undefined", which
\* drops a price of 0.
placeOrderTruthyPrice(request) ==
  [method |-> "POST",
   path   |-> <<"/api/v1/trading/order", <<>>>>,
   body   |-> OptionalIfTruthy(request, "price", "price")
                @@ [stock_code |-> request.stockCode,
                    order_type |-> request.orderType,
                    quantity   |-> request.quantity]]

\* tradingApi.placeOrder: the request sent.
placeOrder(request) ==
  [method |-> "POST",
   path   |-> <<"/api/v1/trading/order", <<>>>>,
   body   |-> Optional(request, "price", "price")
                @@ [stock_code |-> request.stockCode,
                    order_type |-> request.orderType,
                    quantity   |-> request.quantity]]

\* Faulty setStopLoss: the optional fields tested for truthiness, which drops
\* a value of 0.
setStopLossTruthy(request) ==
  [method |-> "POST",
   path   |-> <<"/api/v1/trading/stop-loss", <<>>>>,
   body   |-> OptionalIfTruthy(request, "takeProfitPrice", "take_profit_price")
                @@ OptionalIfTruthy(request, "takeProfitPct", "take_profit_pct")
                @@ OptionalIfTruthy(request, "stopLossPrice", "stop_loss_price")
                @@ OptionalIfTruthy(request, "stopLossPct", "stop_loss_pct")
                @@ [stock_code |-> request.stockCode]]

\* tradingApi.setStopLoss: the request sent.
setStopLoss(request) ==
  [method |-> "POST",
   path   |-> <<"/api/v1/trading/stop-loss", <<>>>>,
   body   |-> Optional(request, "takeProfitPrice", "take_profit_price")
                @@ Optional(request, "takeProfitPct", "take_profit_pct")
                @@ Optional(request, "stopLossPrice", "stop_loss_price")
                @@ Optional(request, "stopLossPct", "stop_loss_pct")
                @@ [stock_code |-> request.stockCode]]

\* tradingApi.deleteStopLoss: the request sent.
deleteStopLoss(code) ==
  [method |-> "DELETE",
   path   |-> <<"/api/v1/trading/stop-loss/", code>>,
   body   |-> EmptyBody]

\* The read operations loadData starts, in the order of its Promise.all.
LoadReads ==
  {"getAccount", "getPositions", "getOrders", "getAllStopLoss",
   "getAccountHistory", "getPerformanceMetrics"}

\* Every read operation the Trading Client offers.
ReadOperations == LoadReads \cup {"getStopLoss"}

(***************************************************************************)
(* What the user can type and what the backend can answer.                 *)
(***************************************************************************)
\* The stock-code input: empty, blank, a code with a space before it.
StockCodeInputs == {<<>>, <<" ">>, <<" ", "a", "b">>}

\* The quantity input (type="number": empty or a valid floating-point number).
QuantityInputs == {<<>>, <<"0">>, <<"2">>, <<".", "5">>, <<"2", ".", "5">>}

\* A field of the stop-loss form (type="number").
StopLossInputs == {<<>>, <<"5">>}

AB == <<"A", "B">>

\* A number of the backend's JSON, or null.
Null == [isNull |-> TRUE, v |-> 0]

Val(h) == [isNull |-> FALSE, v |-> h]

StopLossA ==
  [id |-> 1, stockCode |-> AB, takeProfitPrice |-> Val(0), takeProfitPct |-> Null,
   stopLossPrice |-> Val(9050), stopLossPct |-> Null, isActive |-> TRUE]

StopLossB ==
  [id |-> 2, stockCode |-> AB, takeProfitPrice |-> Null, takeProfitPct |-> Null,
   stopLossPrice |-> Null, stopLossPct |-> Null, isActive |-> FALSE]

\* Answers of getAllStopLoss: no rule, or two entries with one stockCode.
StopLossLists == {<<>>, <<StopLossB, StopLossA>>}

\* Answers of getPositions.
PositionLists == {<<>>, <<[id |-> 1, stockCode |-> AB]>>}

\* status of a placeOrder response.
OrderStatuses == {"filled", "rejected"}

\* message of a placeOrder response with the given status.
ResponseMessage(status) == IF status = "filled" THEN "order filled" ELSE "order rejected"

\* error.response?.data?.detail?.message of a rejected call: absent or a text.
NoDetail == "undefined"

DetailMessages == {NoDetail, "detail message"}

(***************************************************************************)
(* The messages of the view.                                               *)
(***************************************************************************)
MsgLoadFailed == "load failed"                       \* line 62
MsgEnterCodeAndQuantity == "enter code and quantity" \* lines 73, 109
MsgInvalidQuantity == "enter a valid quantity"       \* lines 79, 115
MsgBuyFailed == "buy failed"                         \* line 101
MsgSellFailed == "sell failed"                       \* line 137
MsgStopLossDeleted == "stop loss deleted"            \* line 220
MsgStopLossSaved == "stop loss saved"                \* line 223
MsgSaveFailed == "save failed"                       \* line 230

\* message = null.
NoMessage == [type |-> "null", text |-> ""]

\* a || b for an optional string a: b when a is undefined or empty.
OrElse(a, b) == IF a = NoDetail \/ a = "" THEN b ELSE a

(***************************************************************************)
(* State.                                                                  *)
(***************************************************************************)
VARIABLES
  account,            \* 0 (null) or the load whose getAccount answer is shown
  positions,          \* [load, list]: the load it came from and the positions
  orders,             \* 0 ([]) or the load whose getOrders answer is shown
  stockCode,          \* the stock-code input
  quantity,           \* the quantity input
  loading,            \* an order is being placed
  message,            \* the message shown, or NoMessage
  stopLosses,         \* [load, map]: stockCode -> StopLoss
  showStopLossModal,
  selectedStockCode,
  takeProfitPrice,
  takeProfitPct,
  stopLossPrice,
  stopLossPct,
  savingStopLoss,
  accountHistory,     \* 0 ([]) or the load whose getAccountHistory answer is shown
  performanceMetrics, \* 0 (null) or the load whose answer is shown
  mounted,            \* the mount effect has run
  timers,             \* pending setTimeout callbacks (all with one delay: a queue)
  loads,              \* the loadData calls whose Promise.all is pending
  nLoads,             \* loadData calls so far; a call is named by its number
  requests,           \* the mutating calls in flight, by click number
  clicks,             \* clicks on buy, sell and save so far
  edits,              \* changes of an input so far
  sent,               \* mutating HTTP requests issued so far (history)
  settled,            \* the awaited call that settled last, and how (history)
  lastCommit          \* the highest-numbered load committed so far (history)

dataVars == <<account, positions, orders, accountHistory, performanceMetrics, stopLosses>>

formVars == <<stockCode, quantity>>

modalVars ==
  <<showStopLossModal, selectedStockCode, takeProfitPrice, takeProfitPct,
    stopLossPrice, stopLossPct>>

vars ==
  <<account, positions, orders, stockCode, quantity, loading, message, stopLosses,
    showStopLossModal, selectedStockCode, takeProfitPrice, takeProfitPct,
    stopLossPrice, stopLossPct, savingStopLoss, accountHistory, performanceMetrics,
    mounted, timers, loads, nLoads, requests, clicks, edits, sent, settled, lastCommit>>

\* The record of a settled call: a loadData (call: its number) or a mutating
\* operation (call: the number of the click that made it); value is the status
\* of a placeOrder response, the success of a stop-loss response, the detail
\* message of a rejection, or the getAllStopLoss answer of a fulfilled loadData.
Settle(op, call, result, value) ==
  [op |-> op, call |-> call, result |-> result, value |-> value]

NoneSettled == Settle("none", 0, "none", "")

\* The useState initial values, before the mount effect.
Init ==
  /\ account = 0
  /\ positions = [load |-> 0, list |-> <<>>]
  /\ orders = 0
  /\ stockCode = <<>>
  /\ quantity = <<>>
  /\ loading = FALSE
  /\ message = NoMessage
  /\ stopLosses = [load |-> 0, map |-> <<>>]
  /\ showStopLossModal = FALSE
  /\ selectedStockCode = <<>>
  /\ takeProfitPrice = <<>>
  /\ takeProfitPct = <<>>
  /\ stopLossPrice = <<>>
  /\ stopLossPct = <<>>
  /\ savingStopLoss = FALSE
  /\ accountHistory = 0
  /\ performanceMetrics = 0
  /\ mounted = FALSE
  /\ timers = 0
  /\ loads = <<>>
  /\ nLoads = 0
  /\ requests = <<>>
  /\ clicks = 0
  /\ edits = 0
  /\ sent = 0
  /\ settled = NoneSettled
  /\ lastCommit = 0

(***************************************************************************)
(* showMessage and its timer.                                              *)
(***************************************************************************)
\* Faulty showMessage: the message is set and no timer started.
showMessageNoTimer(type, text) ==
  /\ message' = [type |-> type, text |-> text]
  /\ timers' = timers

\* showMessage(type, text): the message is set and a 3000 ms timer started.
showMessage(type, text) ==
  /\ message' = [type |-> type, text |-> text]
  /\ timers' = timers + 1

\* The callback of the oldest pending timer: setMessage(null).
TimerFire ==
  /\ timers > 0
  /\ timers' = timers - 1
  /\ message' = NoMessage
  /\ UNCHANGED <<dataVars, formVars, modalVars, loading, savingStopLoss, mounted,
                 loads, nLoads, requests, clicks, edits, sent, settled, lastCommit>>

(***************************************************************************)
(* loadData.                                                               *)
(***************************************************************************)
\* Faulty loadData: getAccountHistory is left out of the Promise.all.
loadDataMissingRead(owner) ==
  /\ nLoads' = nLoads + 1
  /\ loads' = (nLoads + 1 :> [issued   |-> LoadReads \ {"getAccountHistory"},
                              resolved |-> 0,
                              owner    |-> owner])
                @@ loads

\* The synchronous part of loadData: every read of the Promise.all is started.
\* owner is what awaits the call: "mount", "buy", "sell" or "save".  Promise.all
\* treats its promises alike, so a load keeps the reads it issued and how many
\* of them have been answered.
loadData(owner) ==
  /\ nLoads' = nLoads + 1
  /\ loads' = (nLoads + 1 :> [issued |-> LoadReads, resolved |-> 0, owner |-> owner])
                @@ loads

\* The loads still pending once load l has settled.
Settled(l) == [k \in DOMAIN loads \ {l} |-> loads[k]]

\* closeStopLossModal.
closeStopLossModal ==
  /\ showStopLossModal' = FALSE
  /\ selectedStockCode' = <<>>
  /\ takeProfitPrice' = <<>>
  /\ takeProfitPct' = <<>>
  /\ stopLossPrice' = <<>>
  /\ stopLossPct' = <<>>

\* What runs once "await loadData()" returns in the handler that awaits it:
\* handleBuy and handleSell reach their finally; handleSaveStopLoss closes the
\* modal and reaches its finally; the mount effect awaits nothing.
AfterLoad(owner) ==
  /\ loading' = IF owner \in {"buy", "sell"} THEN FALSE ELSE loading
  /\ savingStopLoss' = IF owner = "save" THEN FALSE ELSE savingStopLoss
  /\ IF owner = "save" THEN closeStopLossModal ELSE UNCHANGED modalVars

\* stopLossData.forEach(sl => stopLossMap[sl.stockCode] = sl), from an empty map.
RECURSIVE StopLossMap(_)
StopLossMap(list) ==
  IF list = <<>> THEN <<>>
  ELSE LET sl == list[Len(list)]
       IN (sl.stockCode :> sl) @@ StopLossMap(SubSeq(list, 1, Len(list) - 1))

\* Faulty commit: the answers of a load are dropped when a later-started load
\* has been committed already.
CommitIfNewest(l, positionsData, stopLossData) ==
  IF l > lastCommit
    THEN /\ account' = l
         /\ positions' = [load |-> l, list |-> positionsData]
         /\ orders' = l
         /\ accountHistory' = l
         /\ performanceMetrics' = l
         /\ stopLosses' = [load |-> l, map |-> StopLossMap(stopLossData)]
    ELSE UNCHANGED dataVars

\* Faulty commit: the new entries are merged into the map of the render
\* (setStopLosses({...stopLosses, ...stopLossMap})).
CommitMerge(l, positionsData, stopLossData) ==
  /\ account' = l
  /\ positions' = [load |-> l, list |-> positionsData]
  /\ orders' = l
  /\ accountHistory' = l
  /\ performanceMetrics' = l
  /\ stopLosses' = [load |-> l, map |-> StopLossMap(stopLossData) @@ stopLosses.map]

\* The six setters after the Promise.all of load l is fulfilled.
Commit(l, positionsData, stopLossData) ==
  /\ account' = l
  /\ positions' = [load |-> l, list |-> positionsData]
  /\ orders' = l
  /\ accountHistory' = l
  /\ performanceMetrics' = l
  /\ stopLosses' = [load |-> l, map |-> StopLossMap(stopLossData)]

\* Faulty loadData: the answer of a read is set as soon as it arrives (here the
\* account), not once the whole Promise.all is fulfilled.
ReadResolveEager(l) ==
  /\ l \in DOMAIN loads
  /\ loads[l].resolved < Cardinality(loads[l].issued)
  /\ IF loads[l].resolved + 1 = Cardinality(loads[l].issued)
       THEN /\ \E positionsData \in PositionLists, stopLossData \in StopLossLists :
                 /\ Commit(l, positionsData, stopLossData)
                 /\ settled' = Settle("loadData", l, "fulfilled", stopLossData)
            /\ loads' = Settled(l)
            /\ lastCommit' = IF l > lastCommit THEN l ELSE lastCommit
            /\ AfterLoad(loads[l].owner)
       ELSE /\ loads' = [loads EXCEPT ![l].resolved = @ + 1]
            /\ account' = l
            /\ UNCHANGED <<positions, orders, accountHistory, performanceMetrics,
                           stopLosses, modalVars, loading, savingStopLoss, settled,
                           lastCommit>>
  /\ UNCHANGED <<formVars, message, timers, mounted, nLoads, requests, clicks, edits,
                 sent>>

\* The answer of one of the pending reads of load l arrives.  With the last
\* answer the Promise.all is fulfilled and the results are committed.
ReadResolve(l) ==
  /\ l \in DOMAIN loads
  /\ loads[l].resolved < Cardinality(loads[l].issued)
  /\ IF loads[l].resolved + 1 = Cardinality(loads[l].issued)
       THEN /\ \E positionsData \in PositionLists, stopLossData \in StopLossLists :
                 /\ Commit(l, positionsData, stopLossData)
                 /\ settled' = Settle("loadData", l, "fulfilled", stopLossData)
            /\ loads' = Settled(l)
            /\ lastCommit' = IF l > lastCommit THEN l ELSE lastCommit
            /\ AfterLoad(loads[l].owner)
       ELSE /\ loads' = [loads EXCEPT ![l].resolved = @ + 1]
            /\ UNCHANGED <<dataVars, modalVars, loading, savingStopLoss, settled,
                           lastCommit>>
  /\ UNCHANGED <<formVars, message, timers, mounted, nLoads, requests, clicks, edits,
                 sent>>

\* Faulty catch of loadData: the account answer is set although the load failed
\* (the reads awaited one after the other, each followed by its setter).
ReadRejectPartial(l) ==
  /\ l \in DOMAIN loads
  /\ loads[l].resolved < Cardinality(loads[l].issued)
  /\ showMessage("error", MsgLoadFailed)
  /\ loads' = Settled(l)
  /\ AfterLoad(loads[l].owner)
  /\ settled' = Settle("loadData", l, "rejected", "")
  /\ account' = IF loads[l].resolved > 0 THEN l ELSE account
  /\ UNCHANGED <<positions, orders, accountHistory, performanceMetrics, stopLosses,
                 formVars, mounted, nLoads, requests, clicks, edits, sent, lastCommit>>

\* Faulty loadData: no catch of its own, so the rejection reaches the handler
\* that awaits it: its catch shows the handler's failure message and what
\* follows the await (closeStopLossModal) is skipped.
ReadRejectRethrow(l) ==
  /\ l \in DOMAIN loads
  /\ loads[l].resolved < Cardinality(loads[l].issued)
  /\ showMessage("error",
       CASE loads[l].owner = "buy" -> MsgBuyFailed
         [] loads[l].owner = "sell" -> MsgSellFailed
         [] loads[l].owner = "save" -> MsgSaveFailed
         [] OTHER -> MsgLoadFailed)
  /\ loads' = Settled(l)
  /\ loading' = IF loads[l].owner \in {"buy", "sell"} THEN FALSE ELSE loading
  /\ savingStopLoss' = IF loads[l].owner = "save" THEN FALSE ELSE savingStopLoss
  /\ settled' = Settle("loadData", l, "rejected", "")
  /\ UNCHANGED <<dataVars, formVars, modalVars, mounted, nLoads, requests, clicks,
                 edits, sent, lastCommit>>

\* One of the pending reads of load l is rejected: the Promise.all is rejected
\* at once and the catch of loadData runs.  The other reads stay in flight;
\* their answers are dropped, so the model forgets them.
ReadReject(l) ==
  /\ l \in DOMAIN loads
  /\ loads[l].resolved < Cardinality(loads[l].issued)
  /\ showMessage("error", MsgLoadFailed)
  /\ loads' = Settled(l)
  /\ AfterLoad(loads[l].owner)
  /\ settled' = Settle("loadData", l, "rejected", "")
  /\ UNCHANGED <<dataVars, formVars, mounted, nLoads, requests, clicks, edits, sent,
                 lastCommit>>

\* useEffect(() => { loadData(); }, []).
Mount ==
  /\ ~mounted
  /\ mounted' = TRUE
  /\ loadData("mount")
  /\ UNCHANGED <<dataVars, formVars, modalVars, loading, savingStopLoss, message,
                 timers, requests, clicks, edits, sent, settled, lastCommit>>

(***************************************************************************)
(* The order form: handleBuy and handleSell.                               *)
(***************************************************************************)
\* onChange of the stock-code input (disabled while loading).
SetStockCode(v) ==
  /\ ~loading
  /\ clicks + edits < MaxEvents
  /\ edits' = edits + 1
  /\ stockCode' = toUpperCase(v)
  /\ stockCode' # stockCode
  /\ UNCHANGED <<dataVars, quantity, modalVars, loading, savingStopLoss, message,
                 mounted, timers, loads, nLoads, requests, clicks, sent, settled,
                 lastCommit>>

\* onChange of the quantity input (disabled while loading).
SetQuantity(v) ==
  /\ ~loading
  /\ clicks + edits < MaxEvents
  /\ edits' = edits + 1
  /\ quantity' = v
  /\ quantity' # quantity
  /\ UNCHANGED <<dataVars, stockCode, modalVars, loading, savingStopLoss, message,
                 mounted, timers, loads, nLoads, requests, clicks, sent, settled,
                 lastCommit>>

\* Faulty buttons: the disabled attribute is left out.
OrderButtonAlways == TRUE

\* The buy and sell buttons are disabled while loading.
OrderButtonEnabled == ~loading

\* Faulty validation: "qty < 0" in place of "qty <= 0", which lets a quantity
\* of 0 through.
HandleOrderAcceptsZero(orderType) ==
  /\ mounted
  /\ OrderButtonEnabled
  /\ clicks + edits < MaxEvents
  /\ clicks' = clicks + 1
  /\ IF ~Truthy(trim(stockCode)) \/ ~Truthy(trim(quantity))
       THEN /\ showMessage("error", MsgEnterCodeAndQuantity)
            /\ UNCHANGED <<loading, requests, sent>>
       ELSE LET qty == parseInt(quantity)
            IN IF isNaN(qty) \/ qty.v < 0
                 THEN /\ showMessage("error", MsgInvalidQuantity)
                      /\ UNCHANGED <<loading, requests, sent>>
                 ELSE LET request == [stockCode |-> toUpperCase(trim(stockCode)),
                                      orderType |-> orderType,
                                      quantity  |-> qty]
                      IN /\ loading' = TRUE
                         /\ sent' = sent + 1
                         /\ requests' =
                              (clicks' :> [op      |-> "placeOrder",
                                           handler |-> orderType,
                                           arg     |-> request,
                                           http    |-> placeOrder(request)])
                                @@ requests
                         /\ UNCHANGED <<message, timers>>
  /\ UNCHANGED <<dataVars, formVars, modalVars, savingStopLoss, mounted, loads,
                 nLoads, edits, settled, lastCommit>>

\* handleBuy (orderType "buy") and handleSell ("sell") up to the await of
\* placeOrder: the two validations, then setLoading(true) and the request.
HandleOrder(orderType) ==
  /\ mounted
  /\ OrderButtonEnabled
  /\ clicks + edits < MaxEvents
  /\ clicks' = clicks + 1
  /\ IF ~Truthy(trim(stockCode)) \/ ~Truthy(trim(quantity))
       THEN /\ showMessage("error", MsgEnterCodeAndQuantity)
            /\ UNCHANGED <<loading, requests, sent>>
       ELSE LET qty == parseInt(quantity)
            IN IF isNaN(qty) \/ qty.v <= 0
                 THEN /\ showMessage("error", MsgInvalidQuantity)
                      /\ UNCHANGED <<loading, requests, sent>>
                 ELSE LET request == [stockCode |-> toUpperCase(trim(stockCode)),
                                      orderType |-> orderType,
                                      quantity  |-> qty]
                      IN /\ loading' = TRUE
                         /\ sent' = sent + 1
                         /\ requests' =
                              (clicks' :> [op      |-> "placeOrder",
                                           handler |-> orderType,
                                           arg     |-> request,
                                           http    |-> placeOrder(request)])
                                @@ requests
                         /\ UNCHANGED <<message, timers>>
  /\ UNCHANGED <<dataVars, formVars, modalVars, savingStopLoss, mounted, loads,
                 nLoads, edits, settled, lastCommit>>

HandleBuy == HandleOrder("buy")

HandleSell == HandleOrder("sell")

\* The mutating calls still in flight once call c has returned.
Returned(c) == [k \in DOMAIN requests \ {c} |-> requests[k]]

\* Faulty continuation of placeOrder: the form is cleared whatever the status.
PlaceOrderResolveClears(c, status) ==
  /\ c \in DOMAIN requests
  /\ requests[c].op = "placeOrder"
  /\ requests' = Returned(c)
  /\ stockCode' = <<>>
  /\ quantity' = <<>>
  /\ IF status = "filled"
       THEN /\ showMessage("success", ResponseMessage(status))
            /\ loadData(requests[c].handler)
            /\ UNCHANGED loading
       ELSE /\ showMessage("error", ResponseMessage(status))
            /\ loading' = FALSE
            /\ UNCHANGED <<loads, nLoads>>
  /\ settled' = Settle("placeOrder", c, "fulfilled", status)
  /\ UNCHANGED <<dataVars, modalVars, savingStopLoss, mounted, clicks, edits, sent,
                 lastCommit>>

\* placeOrder of call c resolves with a status: "filled" shows the success
\* message, clears the form and awaits loadData; any other status shows the
\* response's message as an error and reaches the finally.
PlaceOrderResolve(c, status) ==
  /\ c \in DOMAIN requests
  /\ requests[c].op = "placeOrder"
  /\ requests' = Returned(c)
  /\ IF status = "filled"
       THEN /\ showMessage("success", ResponseMessage(status))
            /\ stockCode' = <<>>
            /\ quantity' = <<>>
            /\ loadData(requests[c].handler)
            /\ UNCHANGED loading
       ELSE /\ showMessage("error", ResponseMessage(status))
            /\ loading' = FALSE
            /\ UNCHANGED <<formVars, loads, nLoads>>
  /\ settled' = Settle("placeOrder", c, "fulfilled", status)
  /\ UNCHANGED <<dataVars, modalVars, savingStopLoss, mounted, clicks, edits, sent,
                 lastCommit>>

\* Faulty handling of a rejected placeOrder: the request is sent again.
PlaceOrderRejectRetry(c, detail) ==
  /\ c \in DOMAIN requests
  /\ requests[c].op = "placeOrder"
  /\ sent' = sent + 1
  /\ settled' = Settle("placeOrder", c, "rejected", detail)
  /\ UNCHANGED <<dataVars, formVars, modalVars, loading, savingStopLoss, message,
                 mounted, timers, loads, nLoads, requests, clicks, edits, lastCommit>>

\* placeOrder of call c is rejected (network failure, non-2xx status): the catch
\* of the handler, then its finally.
PlaceOrderReject(c, detail) ==
  /\ c \in DOMAIN requests
  /\ requests[c].op = "placeOrder"
  /\ requests' = Returned(c)
  /\ showMessage("error",
       OrElse(detail, IF requests[c].handler = "buy" THEN MsgBuyFailed ELSE MsgSellFailed))
  /\ loading' = FALSE
  /\ settled' = Settle("placeOrder", c, "rejected", detail)
  /\ UNCHANGED <<dataVars, formVars, modalVars, savingStopLoss, mounted, loads,
                 nLoads, clicks, edits, sent, lastCommit>>

(***************************************************************************)
(* The stop-loss modal.                                                    *)
(***************************************************************************)
\* x?.toString() || '' for a number-or-null x of a StopLoss.
FieldText(x) == IF x.isNull THEN <<>> ELSE toString(x.v)

\* openStopLossModal(pos.stockCode), the button of a position row.
openStopLossModal(code) ==
  /\ \E i \in 1..Len(positions.list) : positions.list[i].stockCode = code
  /\ selectedStockCode' = code
  /\ IF code \in DOMAIN stopLosses.map
       THEN LET existingStopLoss == stopLosses.map[code]
            IN /\ takeProfitPrice' = FieldText(existingStopLoss.takeProfitPrice)
               /\ takeProfitPct' = FieldText(existingStopLoss.takeProfitPct)
               /\ stopLossPrice' = FieldText(existingStopLoss.stopLossPrice)
               /\ stopLossPct' = FieldText(existingStopLoss.stopLossPct)
       ELSE /\ takeProfitPrice' = <<>>
            /\ takeProfitPct' = <<>>
            /\ stopLossPrice' = <<>>
            /\ stopLossPct' = <<>>
  /\ showStopLossModal' = TRUE
  /\ UNCHANGED <<dataVars, formVars, loading, savingStopLoss, message, mounted,
                 timers, loads, nLoads, requests, clicks, edits, sent, settled, lastCommit>>

\* The cancel button of the modal (disabled while saving).
CancelStopLoss ==
  /\ showStopLossModal
  /\ ~savingStopLoss
  /\ closeStopLossModal
  /\ UNCHANGED <<dataVars, formVars, loading, savingStopLoss, message, mounted,
                 timers, loads, nLoads, requests, clicks, edits, sent, settled, lastCommit>>

\* onChange of one of the four inputs of the modal.
SetStopLossField(f, v) ==
  /\ showStopLossModal
  /\ clicks + edits < MaxEvents
  /\ edits' = edits + 1
  /\ takeProfitPrice' = IF f = "takeProfitPrice" THEN v ELSE takeProfitPrice
  /\ takeProfitPct' = IF f = "takeProfitPct" THEN v ELSE takeProfitPct
  /\ stopLossPrice' = IF f = "stopLossPrice" THEN v ELSE stopLossPrice
  /\ stopLossPct' = IF f = "stopLossPct" THEN v ELSE stopLossPct
  /\ <<takeProfitPrice, takeProfitPct, stopLossPrice, stopLossPct>>'
       # <<takeProfitPrice, takeProfitPct, stopLossPrice, stopLossPct>>
  /\ UNCHANGED <<dataVars, formVars, showStopLossModal, selectedStockCode, loading,
                 savingStopLoss, message, mounted, timers, loads, nLoads, requests,
                 clicks, sent, settled, lastCommit>>

StopLossFields == {"takeProfitPrice", "takeProfitPct", "stopLossPrice", "stopLossPct"}

\* if (input) request[f] = parseFloat(input).
FieldOf(input, f) == IF Truthy(input) THEN (f :> parseFloat(input)) ELSE EmptyBody

\* The request object handleSaveStopLoss builds.
SaveRequest ==
  FieldOf(takeProfitPrice, "takeProfitPrice")
    @@ FieldOf(takeProfitPct, "takeProfitPct")
    @@ FieldOf(stopLossPrice, "stopLossPrice")
    @@ FieldOf(stopLossPct, "stopLossPct")
    @@ [stockCode |-> selectedStockCode]

\* Faulty test: only the two price inputs are looked at.
PricesEmpty == ~Truthy(takeProfitPrice) /\ ~Truthy(stopLossPrice)

\* All four inputs are empty: the rule is deleted, not updated.
AllFieldsEmpty ==
  ~Truthy(takeProfitPrice) /\ ~Truthy(takeProfitPct)
    /\ ~Truthy(stopLossPrice) /\ ~Truthy(stopLossPct)

\* handleSaveStopLoss up to its first await (the save button is disabled while
\* saving; without a selected stock the handler returns at once).
HandleSaveStopLoss ==
  /\ showStopLossModal
  /\ ~savingStopLoss
  /\ Truthy(selectedStockCode)
  /\ clicks + edits < MaxEvents
  /\ clicks' = clicks + 1
  /\ savingStopLoss' = TRUE
  /\ sent' = sent + 1
  /\ requests' =
       (clicks' :>
          IF AllFieldsEmpty
            THEN [op      |-> "deleteStopLoss",
                  handler |-> "save",
                  arg     |-> [stockCode |-> selectedStockCode],
                  http    |-> deleteStopLoss(selectedStockCode)]
            ELSE [op      |-> "setStopLoss",
                  handler |-> "save",
                  arg     |-> SaveRequest,
                  http    |-> setStopLoss(SaveRequest)])
         @@ requests
  /\ UNCHANGED <<dataVars, formVars, modalVars, loading, message, mounted, timers,
                 loads, nLoads, edits, settled, lastCommit>>

\* Faulty continuation of a stop-loss call: the reload only after success: true.
StopLossResolveIfSuccess(c, success) ==
  /\ c \in DOMAIN requests
  /\ requests[c].op \in {"deleteStopLoss", "setStopLoss"}
  /\ requests' = Returned(c)
  /\ showMessage("success",
       IF requests[c].op = "deleteStopLoss" THEN MsgStopLossDeleted ELSE MsgStopLossSaved)
  /\ IF success
       THEN loadData("save") /\ UNCHANGED <<modalVars, savingStopLoss>>
       ELSE closeStopLossModal /\ savingStopLoss' = FALSE /\ UNCHANGED <<loads, nLoads>>
  /\ settled' = Settle(requests[c].op, c, "fulfilled", IF success THEN "true" ELSE "false")
  /\ UNCHANGED <<dataVars, formVars, loading, mounted, clicks, edits, sent, lastCommit>>

\* deleteStopLoss or setStopLoss of call c resolves; the response (success or
\* not) is not looked at: the success message, then the awaited loadData.
StopLossResolve(c, success) ==
  /\ c \in DOMAIN requests
  /\ requests[c].op \in {"deleteStopLoss", "setStopLoss"}
  /\ requests' = Returned(c)
  /\ showMessage("success",
       IF requests[c].op = "deleteStopLoss" THEN MsgStopLossDeleted ELSE MsgStopLossSaved)
  /\ loadData("save")
  /\ settled' = Settle(requests[c].op, c, "fulfilled", IF success THEN "true" ELSE "false")
  /\ UNCHANGED <<dataVars, formVars, modalVars, loading, savingStopLoss, mounted,
                 clicks, edits, sent, lastCommit>>

\* deleteStopLoss or setStopLoss of call c is rejected: the catch, then the
\* finally; the modal stays open.
StopLossReject(c, detail) ==
  /\ c \in DOMAIN requests
  /\ requests[c].op \in {"deleteStopLoss", "setStopLoss"}
  /\ requests' = Returned(c)
  /\ showMessage("error", OrElse(detail, MsgSaveFailed))
  /\ savingStopLoss' = FALSE
  /\ settled' = Settle(requests[c].op, c, "rejected", detail)
  /\ UNCHANGED <<dataVars, formVars, modalVars, loading, mounted, loads, nLoads,
                 clicks, edits, sent, lastCommit>>

(***************************************************************************)
(* The dashboard.                                                          *)
(***************************************************************************)
Next ==
  \/ Mount
  \/ TimerFire
  \/ \E l \in DOMAIN loads : ReadResolve(l)
  \/ \E l \in DOMAIN loads : ReadReject(l)
  \/ \E v \in StockCodeInputs : SetStockCode(v)
  \/ \E v \in QuantityInputs : SetQuantity(v)
  \/ HandleBuy
  \/ HandleSell
  \/ \E c \in DOMAIN requests, status \in OrderStatuses : PlaceOrderResolve(c, status)
  \/ \E c \in DOMAIN requests, detail \in DetailMessages : PlaceOrderReject(c, detail)
  \/ openStopLossModal(AB)
  \/ CancelStopLoss
  \/ \E f \in StopLossFields, v \in StopLossInputs : SetStopLossField(f, v)
  \/ HandleSaveStopLoss
  \/ \E c \in DOMAIN requests, success \in BOOLEAN : StopLossResolve(c, success)
  \/ \E c \in DOMAIN requests, detail \in DetailMessages : StopLossReject(c, detail)

Spec == Init /\ [][Next]_vars

\* Timers are run by the browser: a pending timer fires.
FairSpec == Spec /\ WF_vars(TimerFire)

\* A placeOrder call in flight is answered or fails.
OrderSettles ==
  \/ \E c \in DOMAIN requests, status \in OrderStatuses : PlaceOrderResolve(c, status)
  \/ \E c \in DOMAIN requests, detail \in DetailMessages : PlaceOrderReject(c, detail)

\* A read of a pending load is answered or fails.
ReadSettles ==
  \E l \in DOMAIN loads : ReadResolve(l) \/ ReadReject(l)

\* Every HTTP call ends: the transport answers it or reports a failure.
FairCalls == Spec /\ WF_vars(OrderSettles) /\ WF_vars(ReadSettles)

(***************************************************************************)
(* The Trading Client on its own: any caller, any request.                 *)
(***************************************************************************)
\* With and without the optional field f, over the values vs.
WithOptional(base, f, vs) == {base} \cup {(f :> v) @@ base : v \in vs}

\* PlaceOrderRequest values: price omitted, 0 or 10.5.
PlaceOrderRequests ==
  UNION {WithOptional([stockCode |-> sc, orderType |-> ot, quantity |-> q],
                      "price", {Num(0), Num(1050)}) :
           sc \in {AB, <<"6", "0">>}, ot \in {"buy", "sell"}, q \in {Num(1), Num(100)}}

\* SetStopLossRequest values: each optional field omitted, 0 or 90.
SetStopLossRequests ==
  LET vs == {Num(0), Num(9000)}
      r0 == {[stockCode |-> AB]}
      r1 == UNION {WithOptional(r, "takeProfitPrice", vs) : r \in r0}
      r2 == UNION {WithOptional(r, "takeProfitPct", vs) : r \in r1}
      r3 == UNION {WithOptional(r, "stopLossPrice", vs) : r \in r2}
  IN UNION {WithOptional(r, "stopLossPct", vs) : r \in r3}

viewVars ==
  <<dataVars, formVars, modalVars, loading, savingStopLoss, message, mounted, timers,
    loads, nLoads, clicks, edits, lastCommit>>

\* A caller invokes tradingApi.placeOrder(request): its request is sent.
ApiPlaceOrder(request) ==
  /\ requests = <<>>
  /\ sent < MaxCalls
  /\ requests' = (1 :> [op |-> "placeOrder", handler |-> "caller", arg |-> request,
                        http |-> placeOrder(request)])
  /\ sent' = sent + 1
  /\ UNCHANGED <<viewVars, settled>>

\* A caller invokes tradingApi.setStopLoss(request): its request is sent.
ApiSetStopLoss(request) ==
  /\ requests = <<>>
  /\ sent < MaxCalls
  /\ requests' = (1 :> [op |-> "setStopLoss", handler |-> "caller", arg |-> request,
                        http |-> setStopLoss(request)])
  /\ sent' = sent + 1
  /\ UNCHANGED <<viewVars, settled>>

\* The awaited HTTP call returns or throws, and so does the operation: the
\* caller gets the mapped response or the rejection.
ApiSettle(result) ==
  /\ requests # <<>>
  /\ requests' = <<>>
  /\ settled' = Settle(requests[1].op, 1, result, "")
  /\ UNCHANGED <<viewVars, sent>>

NextApi ==
  \/ \E request \in PlaceOrderRequests : ApiPlaceOrder(request)
  \/ \E request \in SetStopLossRequests : ApiSetStopLoss(request)
  \/ \E result \in {"fulfilled", "rejected"} : ApiSettle(result)

SpecApi == Init /\ [][NextApi]_vars

(***************************************************************************)
(* The Data Mapper (./utils, toCamelCase) and the responses the Trading     *)
(* Client maps with it.  A JSON value is a record [t, items, s]: t is       *)
(* "object", "array", "string" or "null"; items are the fields of an object *)
(* in insertion order or the elements of an array, each [key, value] (key   *)
(* <<>> in an array); s is the text of a string.                            *)
(***************************************************************************)
JNull == [t |-> "null", items |-> <<>>, s |-> <<>>]

JString(s) == [t |-> "string", items |-> <<>>, s |-> s]

JObject(fields) == [t |-> "object", items |-> fields, s |-> <<>>]

JArray(values) ==
  [t     |-> "array",
   items |-> [i \in 1..Len(values) |-> [key |-> <<>>, value |-> values[i]]],
   s     |-> <<>>]

Field(key, value) == [key |-> key, value |-> value]

\* A lower-case letter (of the letters the model writes keys with).
IsLower(c) == UpperChar(c) # c

\* Faulty key conversion: only the first underscore-letter pair is rewritten
\* (a replace without the global flag).
RECURSIVE snakeToCamelFirst(_)
snakeToCamelFirst(key) ==
  IF key = <<>> THEN <<>>
  ELSE IF Len(key) >= 2 /\ key[1] = "_" /\ IsLower(key[2])
    THEN <<UpperChar(key[2])>> \o SubSeq(key, 3, Len(key))
    ELSE <<key[1]>> \o snakeToCamelFirst(Tail(key))

\* The camelCase form of a key: every underscore followed by a lower-case
\* letter is replaced by that letter in upper case.
RECURSIVE snakeToCamel(_)
snakeToCamel(key) ==
  IF key = <<>> THEN <<>>
  ELSE IF Len(key) >= 2 /\ key[1] = "_" /\ IsLower(key[2])
    THEN <<UpperChar(key[2])>> \o snakeToCamel(SubSeq(key, 3, Len(key)))
    ELSE <<key[1]>> \o snakeToCamel(Tail(key))

\* fields[key] = value on an object under construction: an existing key keeps
\* its place and takes the value, a new key is added at the end.
Assign(fields, key, value) ==
  IF \E i \in 1..Len(fields) : fields[i].key = key
    THEN [i \in 1..Len(fields) |->
            IF fields[i].key = key THEN Field(key, value) ELSE fields[i]]
    ELSE Append(fields, Field(key, value))

RECURSIVE toCamelCase(_)
RECURSIVE CamelFields(_)
\* The fields of the mapped object: each key converted, each value mapped.
CamelFields(fields) ==
  IF fields = <<>> THEN <<>>
  ELSE LET last == fields[Len(fields)]
       IN Assign(CamelFields(SubSeq(fields, 1, Len(fields) - 1)),
                 snakeToCamel(last.key), toCamelCase(last.value))

\* toCamelCase: arrays element by element (order and length kept), objects
\* field by field, scalars unchanged.
toCamelCase(v) ==
  IF v.t = "array"
    THEN [v EXCEPT !.items =
            [i \in 1..Len(v.items) |-> Field(<<>>, toCamelCase(v.items[i].value))]]
  ELSE IF v.t = "object" THEN [v EXCEPT !.items = CamelFields(v.items)]
  ELSE v

\* Keys of the backend's JSON: one word, two words, three words (snake_case),
\* and a key that is camelCase already.
JsonKeys ==
  {<<"a", "b">>, <<"a", "_", "b">>, <<"a", "_", "b", "_", "a">>, <<"a", "B">>}

\* Scalars: null and a string that looks like a snake_case key.
JsonScalars == {JNull, JString(<<"a", "_", "b">>)}

\* Objects of one field over the values vs.
JsonObjects(vs) == {JObject(<<Field(k, v)>>) : k \in JsonKeys, v \in vs}

\* Response bodies: scalars, objects of one or two fields, arrays of objects,
\* objects nested in objects and in arrays.
JsonValues ==
  LET flat   == JsonObjects(JsonScalars)
      pairs  == {JObject(<<Field(p[1], JNull), Field(p[2], JString(<<"a", "_", "b">>))>>) :
                   p \in {q \in JsonKeys \X JsonKeys : q[1] # q[2]}}
      arrays == {JArray(<<v, JNull>>) : v \in flat} \cup {JArray(<<>>)}
  IN JsonScalars \cup flat \cup pairs \cup arrays \cup JsonObjects(flat \cup arrays)

\* A caller invokes tradingApi.deleteStopLoss(stockCode): its request is sent.
ApiDeleteStopLoss(code) ==
  /\ requests = <<>>
  /\ sent < MaxCalls
  /\ requests' = (1 :> [op |-> "deleteStopLoss", handler |-> "caller",
                        arg |-> [stockCode |-> code], http |-> deleteStopLoss(code)])
  /\ sent' = sent + 1
  /\ UNCHANGED <<viewVars, settled>>

\* The HTTP response of the call arrives with body data: the operation returns
\* toCamelCase(response.data).
ApiReturn(data) ==
  /\ requests # <<>>
  /\ requests' = <<>>
  /\ settled' = Settle(requests[1].op, 1, "fulfilled", toCamelCase(data))
  /\ UNCHANGED <<viewVars, sent>>

NextMapper ==
  \/ \E code \in {AB, <<"6", "0">>} : ApiDeleteStopLoss(code)
  \/ \E data \in JsonValues : ApiReturn(data)

SpecMapper == Init /\ [][NextMapper]_vars

(***************************************************************************)
(* Properties.                                                             *)
(***************************************************************************)
MutatingOperations == {"placeOrder", "setStopLoss", "deleteStopLoss"}

\* This step settles an awaited call of operation op with the given result.
Settles(op, result) ==
  settled' # settled /\ settled'.op = op /\ settled'.result = result

\* The view shows the answers of load l in all six data fields.
Shows(l) ==
  /\ account = l
  /\ positions.load = l
  /\ orders = l
  /\ accountHistory = l
  /\ performanceMetrics = l
  /\ stopLosses.load = l

(* C1: when one of the parallel reads of a load is rejected, that load changes
   none of account, positions, orders, accountHistory, performanceMetrics and
   stopLosses, and the error message of loadData is shown. *)
C1_AllOrNothingLoad ==
  [][Settles("loadData", "rejected")
       => /\ UNCHANGED dataVars
          /\ message' = [type |-> "error", text |-> "load failed"]]_vars

\* A reload failed after an earlier load had been committed: the earlier
\* answers are still shown.
C1_Witness ==
  /\ settled.op = "loadData"
  /\ settled.result = "rejected"
  /\ settled.call = 2
  /\ Shows(1)
  /\ positions.list # <<>>
  /\ message.text = "load failed"

(* C2, as stated: after any mutating call issued by the view has resolved, a
   reload of the full read set is started, whatever the response holds. *)
C2_ReloadAfterAnyMutation ==
  [][(\E op \in MutatingOperations : Settles(op, "fulfilled"))
       => /\ nLoads' = nLoads + 1
          /\ DOMAIN loads' = DOMAIN loads \cup {nLoads'}]_vars

(* C2, amended: a reload is started after setStopLoss or deleteStopLoss has
   resolved, whatever the response holds, and after placeOrder has resolved with
   status "filled"; after placeOrder has resolved with another status no reload
   is started. *)
C2_ReloadAfterSuccess ==
  [][(\E op \in MutatingOperations : Settles(op, "fulfilled"))
       => IF settled'.op = "placeOrder" /\ settled'.value # "filled"
            THEN nLoads' = nLoads /\ loads' = loads
            ELSE /\ nLoads' = nLoads + 1
                 /\ DOMAIN loads' = DOMAIN loads \cup {nLoads'}
                 /\ loads'[nLoads'].resolved = 0]_vars

\* setStopLoss has resolved with success: false and the reload is under way.
C2_Witness ==
  /\ settled.op = "setStopLoss"
  /\ settled.result = "fulfilled"
  /\ settled.value = "false"
  /\ nLoads \in DOMAIN loads
  /\ loads[nLoads].owner = "save"

\* Every load starts with all of reads in flight and none answered; the data
\* fields change only in the step that answers the last of them.
ConcurrentReads(reads) ==
  /\ \A l \in DOMAIN loads' \ DOMAIN loads :
       loads'[l].issued = reads /\ loads'[l].resolved = 0
  /\ dataVars' # dataVars
       => /\ Settles("loadData", "fulfilled")
          /\ settled'.call \in DOMAIN loads
          /\ loads[settled'.call].issued = reads
          /\ loads[settled'.call].resolved + 1 = Cardinality(reads)

(* C3, as stated: a load issues all seven read operations of the Trading Client
   (getStopLoss among them) before any has resolved, and commits only once all
   have resolved. *)
C3_SevenReads ==
  [][ConcurrentReads({"getAccount", "getPositions", "getOrders", "getStopLoss",
                      "getAllStopLoss", "getAccountHistory",
                      "getPerformanceMetrics"})]_vars

(* C3, amended: a load issues six read operations (getAccount, getPositions,
   getOrders, getAllStopLoss, getAccountHistory, getPerformanceMetrics; not
   getStopLoss) before any of them has resolved, and commits only once all six
   have resolved. *)
C3_SixReads ==
  [][ConcurrentReads({"getAccount", "getPositions", "getOrders", "getAllStopLoss",
                      "getAccountHistory", "getPerformanceMetrics"})]_vars

\* Five of the six reads of the first load are answered; nothing is committed.
C3_Witness ==
  /\ 1 \in DOMAIN loads
  /\ loads[1].resolved = 5
  /\ Shows(0)

(* C4: a pending load is never aborted by the start of another one, and a load
   that completes is committed whatever was committed before it, so the view
   can show an earlier-started load after a later-started one was committed. *)
C4_CompletionOrder ==
  [][/\ \A l \in DOMAIN loads :
          l \in DOMAIN loads' \/ (settled' # settled /\ settled'.op = "loadData"
                                    /\ settled'.call = l)
     /\ Settles("loadData", "fulfilled")
          => /\ account' = settled'.call
             /\ positions'.load = settled'.call
             /\ orders' = settled'.call
             /\ accountHistory' = settled'.call
             /\ performanceMetrics' = settled'.call
             /\ stopLosses'.load = settled'.call]_vars

\* The view shows load 1 although load 2, started later, was committed first.
C4_Witness ==
  /\ Shows(1)
  /\ lastCommit = 2

(* C5: when placeOrder resolves with a status other than "filled", the
   response's message is shown as an error (not the fallback text of the catch
   branch), the stockCode and quantity inputs keep their values, and loading is
   reset to false. *)
C5_NotFilledIsFailure ==
  [][(Settles("placeOrder", "fulfilled") /\ settled'.value # "filled")
       => /\ message' = [type |-> "error", text |-> "order rejected"]
          /\ timers' = timers + 1
          /\ stockCode' = stockCode
          /\ quantity' = quantity
          /\ loading /\ ~loading']_vars

\* An order was answered with status "rejected": its message is shown, the
\* form still holds the order.
C5_Witness ==
  /\ settled.op = "placeOrder"
  /\ settled.result = "fulfilled"
  /\ settled.value = "rejected"
  /\ message = [type |-> "error", text |-> "order rejected"]
  /\ stockCode = <<" ", "A", "B">>
  /\ quantity = <<"2">>
  /\ ~loading

\* The step is a click on the save button of the modal that passes the
\* selected-stock test.
SaveClick == ~savingStopLoss /\ savingStopLoss'

(* C6: handleSaveStopLoss with a selected stock sends exactly one mutating
   request: deleteStopLoss(selectedStockCode) when all four inputs are empty,
   setStopLoss otherwise, with at least one optional field in its body; the
   rest of the handler sends nothing more. *)
C6_SaveSendsOne ==
  [][/\ SaveClick
          => /\ sent' = sent + 1
             /\ clicks' \notin DOMAIN requests
             /\ DOMAIN requests' = DOMAIN requests \cup {clicks'}
             /\ LET r == requests'[clicks']
                IN IF /\ takeProfitPrice = <<>>
                      /\ takeProfitPct = <<>>
                      /\ stopLossPrice = <<>>
                      /\ stopLossPct = <<>>
                     THEN /\ r.op = "deleteStopLoss"
                          /\ r.http.method = "DELETE"
                          /\ r.http.path = <<"/api/v1/trading/stop-loss/", selectedStockCode>>
                     ELSE /\ r.op = "setStopLoss"
                          /\ r.http.method = "POST"
                          /\ r.http.path[1] = "/api/v1/trading/stop-loss"
                          /\ "stock_code" \in DOMAIN r.http.body
                          /\ DOMAIN r.http.body # {"stock_code"}
     /\ (Settles("setStopLoss", "fulfilled") \/ Settles("setStopLoss", "rejected")
           \/ Settles("deleteStopLoss", "fulfilled")
           \/ Settles("deleteStopLoss", "rejected"))
          => sent' = sent /\ DOMAIN requests' \subseteq DOMAIN requests]_vars

\* The save button was clicked with the four inputs empty: a deleteStopLoss
\* is in flight.
C6_Witness ==
  /\ savingStopLoss
  /\ AllFieldsEmpty
  /\ \E c \in DOMAIN requests : requests[c].op = "deleteStopLoss"

\* The snake_case key of an optional field.
WireKey(f) ==
  CASE f = "price" -> "price"
    [] f = "takeProfitPrice" -> "take_profit_price"
    [] f = "takeProfitPct" -> "take_profit_pct"
    [] f = "stopLossPrice" -> "stop_loss_price"
    [] f = "stopLossPct" -> "stop_loss_pct"

(* C7: placeOrder sends a body with exactly the keys stock_code, order_type and
   quantity, their values copied from the request, plus the key price exactly
   when request.price is provided. *)
C7_PlaceOrderBody ==
  \A c \in DOMAIN requests :
    requests[c].op = "placeOrder"
      => LET a == requests[c].arg
             b == requests[c].http.body
         IN /\ DOMAIN b = {"stock_code", "order_type", "quantity"}
                            \cup {WireKey(f) : f \in DOMAIN a \cap {"price"}}
            /\ b.stock_code = a.stockCode
            /\ b.order_type = a.orderType
            /\ b.quantity = a.quantity
            /\ "price" \in DOMAIN a => b.price = a.price

\* A limit order at price 0 is in flight: the body carries price.
C7_Witness ==
  \E c \in DOMAIN requests :
    /\ requests[c].op = "placeOrder"
    /\ "price" \in DOMAIN requests[c].arg
    /\ requests[c].arg.price = Num(0)
    /\ requests[c].http.body.price = Num(0)

(* C8: for every subset of takeProfitPrice, takeProfitPct, stopLossPrice and
   stopLossPct provided to setStopLoss, the body holds stock_code plus exactly
   the snake_case keys of the provided fields, each with the provided value. *)
C8_SetStopLossBody ==
  \A c \in DOMAIN requests :
    requests[c].op = "setStopLoss"
      => LET a == requests[c].arg
             b == requests[c].http.body
         IN /\ DOMAIN b = {"stock_code"} \cup {WireKey(f) : f \in DOMAIN a \ {"stockCode"}}
            /\ b.stock_code = a.stockCode
            /\ \A f \in DOMAIN a \ {"stockCode"} : b[WireKey(f)] = a[f]

\* setStopLoss({stockCode, stopLossPrice: 0}) is in flight with a body of
\* stock_code and stop_loss_price only.
C8_Witness ==
  \E c \in DOMAIN requests :
    /\ requests[c].op = "setStopLoss"
    /\ DOMAIN requests[c].arg = {"stockCode", "stopLossPrice"}
    /\ requests[c].arg.stopLossPrice = Num(0)
    /\ DOMAIN requests[c].http.body = {"stock_code", "stop_loss_price"}

(* C9: an operation issues one HTTP request per invocation and a rejection
   reaches the caller: mutating requests are sent only by a click, one per
   click, and a rejected call or load is not sent again. *)
C9_NoRetry ==
  [][/\ sent' # sent
          => /\ sent' = sent + 1
             /\ clicks' = clicks + 1
             /\ DOMAIN requests' = DOMAIN requests \cup {clicks'}
     /\ ~(DOMAIN requests' \subseteq DOMAIN requests) => sent' = sent + 1
     /\ (\E op \in MutatingOperations : Settles(op, "rejected"))
          => /\ settled'.call \in DOMAIN requests
             /\ DOMAIN requests' = DOMAIN requests \ {settled'.call}
             /\ sent' = sent
             /\ nLoads' = nLoads
             /\ message'.type = "error"
     /\ Settles("loadData", "rejected")
          => /\ DOMAIN loads' = DOMAIN loads \ {settled'.call}
             /\ nLoads' = nLoads
             /\ sent' = sent]_vars

\* A buy was rejected by the transport: the fallback message is shown and
\* nothing is in flight.
C9_Witness ==
  /\ settled.op = "placeOrder"
  /\ settled.result = "rejected"
  /\ message = [type |-> "error", text |-> "buy failed"]
  /\ requests = <<>>
  /\ sent = 1
  /\ ~loading

(* C10: every message shown is dismissed without user action: whenever a
   message is shown, message later is null. *)
C10_MessageDismissed == (message # NoMessage) ~> (message = NoMessage)

\* A success message is shown while the timer of an earlier message is pending.
C10_Witness ==
  /\ message.type = "success"
  /\ timers = 2

\* Some object of the value v, at any depth, has the key k.
RECURSIVE HasKey(_, _)
HasKey(v, k) ==
  \E i \in 1..Len(v.items) :
    (v.t = "object" /\ v.items[i].key = k) \/ HasKey(v.items[i].value, k)

(* C11: toCamelCase is idempotent: the value an operation returns, which is
   the response body mapped once, is left as it is by mapping it again, nested
   objects and arrays included. *)
C11_MapperIdempotent ==
  settled.result = "fulfilled" => toCamelCase(settled.value) = settled.value

\* A returned value holds, inside an array inside an object, the key aBA that
\* the mapper made of a_b_a.
C11_Witness ==
  /\ settled.result = "fulfilled"
  /\ settled.value.t = "object"
  /\ settled.value.items[1].value.t = "array"
  /\ HasKey(settled.value.items[1].value, <<"a", "B", "A">>)

\* The step is a click on the buy or the sell button.
OrderClick == HandleBuy \/ HandleSell

\* The text has no white space at either end and no lower-case letter.
TrimmedUpper(t) ==
  /\ t # <<>>
  /\ t[1] # " " /\ t[Len(t)] # " "
  /\ \A i \in 1..Len(t) : ~IsLower(t[i])

(* C12: a click on buy or sell whose stock-code or quantity input is blank, or
   whose quantity does not parse to a positive integer, sends no request, leaves
   loading false and only shows an error message; any other click sends one
   placeOrder request whose stockCode is the input trimmed and upper-cased (and
   not empty), whose orderType is "buy" from handleBuy and "sell" from
   handleSell, and whose quantity is a positive integer. *)
C12_OrderInputsValid ==
  [][OrderClick
       => LET qty == parseInt(quantity)
          IN IF \/ trim(stockCode) = <<>>
                \/ trim(quantity) = <<>>
                \/ isNaN(qty)
                \/ qty.v <= 0
               THEN /\ sent' = sent
                    /\ requests' = requests
                    /\ ~loading'
                    /\ message'.type = "error"
                    /\ message'.text \in {"enter code and quantity",
                                          "enter a valid quantity"}
                    /\ UNCHANGED <<dataVars, formVars, modalVars, savingStopLoss,
                                   loads, nLoads>>
               ELSE /\ sent' = sent + 1
                    /\ DOMAIN requests' = DOMAIN requests \cup {clicks'}
                    /\ clicks' \notin DOMAIN requests
                    /\ LET r == requests'[clicks']
                       IN /\ r.op = "placeOrder"
                          /\ TrimmedUpper(r.arg.stockCode)
                          /\ r.arg.stockCode = toUpperCase(trim(stockCode))
                          /\ HandleBuy => r.arg.orderType = "buy"
                          /\ HandleSell => r.arg.orderType = "sell"
                          /\ r.arg.orderType \in {"buy", "sell"}
                          /\ ~isNaN(r.arg.quantity)
                          /\ r.arg.quantity.v >= 1
                          /\ r.http.body.stock_code = r.arg.stockCode
                          /\ r.http.body.order_type = r.arg.orderType
                          /\ r.http.body.quantity = r.arg.quantity]_vars

\* A sell of quantity "2.5" is in flight as an order of 2 shares of AB, and a
\* click on the blank form before it was refused.
C12_Witness ==
  /\ clicks = 2
  /\ sent = 1
  /\ loading
  /\ \E c \in DOMAIN requests :
       /\ requests[c].arg.stockCode = AB
       /\ requests[c].arg.orderType = "sell"
       /\ requests[c].arg.quantity = Num(2)
  /\ quantity = <<"2", ".", "5">>

(* C13: in every reachable state the six data fields (account, positions,
   orders, accountHistory, performanceMetrics, stopLosses) hold the answers of
   one and the same load, which has completed, or are all at their initial
   values; no state mixes the answers of two loads. *)
C13_AtomicCommit ==
  \E l \in 0..nLoads : Shows(l) /\ l \notin DOMAIN loads

\* The answers of the second load are shown while the first load, started
\* before it, still waits for its last answer.
C13_Witness ==
  /\ Shows(2)
  /\ positions.list # <<>>
  /\ 1 \in DOMAIN loads
  /\ loads[1].resolved = 5

(* C14: when a load is fulfilled, the stopLosses map is built from that load's
   getAllStopLoss answer alone: its keys are exactly the stockCode values of
   the list, each key maps to the last entry of the list with that stockCode,
   and nothing of the map of an earlier load is kept. *)
C14_MapRebuilt ==
  [][Settles("loadData", "fulfilled")
       => LET list == settled'.value
              map  == stopLosses'.map
          IN /\ DOMAIN map = {list[i].stockCode : i \in 1..Len(list)}
             /\ \A code \in DOMAIN map :
                  \E i \in 1..Len(list) :
                    /\ list[i].stockCode = code
                    /\ map[code] = list[i]
                    /\ \A j \in (i + 1)..Len(list) : list[j].stockCode # code]_vars

\* The rule of AB, shown after the first load, was deleted in the modal (its
\* two filled inputs cleared, then saved); the reload answered with no rule and
\* the map is empty.
C14_Witness ==
  /\ message = [type |-> "success", text |-> "stop loss deleted"]
  /\ edits = 2
  /\ settled.op = "loadData"
  /\ settled.call = 2
  /\ settled.result = "fulfilled"
  /\ settled.value = <<>>
  /\ Shows(2)
  /\ stopLosses.map = <<>>

\* The placeOrder calls in flight.
OrdersInFlight == {c \in DOMAIN requests : requests[c].op = "placeOrder"}

\* The reloads a buy or sell handler awaits.
OrderReloads == {l \in DOMAIN loads : loads[l].owner \in {"buy", "sell"}}

(* C15: while a buy or sell is in progress (its placeOrder in flight, or the
   reload after a filled order pending) loading is true, the buy and sell
   buttons are disabled and no click on them does anything, so at most one
   placeOrder is in flight; loading is true only then; the step that ends the
   handler (a status other than "filled", a rejection, or the end of the
   awaited reload) resets loading, and loading is always reset in the end. *)
C15_OneOrderAtATime ==
  /\ [](/\ Cardinality(OrdersInFlight) + Cardinality(OrderReloads) <= 1
        /\ loading <=> (OrdersInFlight # {} \/ OrderReloads # {})
        /\ loading => ~OrderButtonEnabled)
  /\ [][/\ loading => (clicks' = clicks \/ SaveClick)
        /\ (Settles("placeOrder", "rejected")
              \/ (Settles("placeOrder", "fulfilled") /\ settled'.value # "filled"))
             => loading /\ ~loading'
        /\ (Settles("placeOrder", "fulfilled") /\ settled'.value = "filled")
             => loading' /\ OrderReloads' = {nLoads'}
        /\ (settled' # settled /\ settled'.op = "loadData"
              /\ settled'.call \in OrderReloads)
             => loading /\ ~loading']_vars
  /\ (loading ~> ~loading)

\* The reload after a filled order has failed: loading is false again and
\* nothing of the order is pending.
C15_Witness ==
  /\ settled.op = "loadData"
  /\ settled.result = "rejected"
  /\ settled.call = 2
  /\ sent = 1
  /\ stockCode = <<>>
  /\ quantity = <<>>
  /\ ~loading
  /\ OrdersInFlight = {}

\* The messages of the catch branches of handleBuy, handleSell and
\* handleSaveStopLoss.
HandlerFailures == {"buy failed", "sell failed", "save failed", "detail message"}

(* C16: when the reload awaited after a filled order or after a resolved
   setStopLoss or deleteStopLoss fails, loadData reports it itself and returns:
   the message is the load-failure message, not the failure message of the
   handler; after an order the form stays cleared and loading is reset; after
   a save the modal is closed, its inputs cleared and savingStopLoss reset. *)
C16_ReloadFailureIsNotMutationFailure ==
  [][(Settles("loadData", "rejected") /\ loads[settled'.call].owner # "mount")
       => LET owner == loads[settled'.call].owner
          IN /\ message' = [type |-> "error", text |-> "load failed"]
             /\ message'.text \notin HandlerFailures
             /\ owner \in {"buy", "sell"}
                  => /\ stockCode' = <<>> /\ quantity' = <<>>
                     /\ ~loading'
                     /\ UNCHANGED modalVars
             /\ owner = "save"
                  => /\ ~showStopLossModal'
                     /\ selectedStockCode' = <<>>
                     /\ takeProfitPrice' = <<>> /\ takeProfitPct' = <<>>
                     /\ stopLossPrice' = <<>> /\ stopLossPct' = <<>>
                     /\ ~savingStopLoss'
                     /\ UNCHANGED formVars]_vars

\* A rule was saved from the modal without touching the order form, and the
\* reload failed: the load-failure message is shown and the modal is closed.
C16_Witness ==
  /\ settled.op = "loadData"
  /\ settled.result = "rejected"
  /\ settled.call = 2
  /\ edits = 0
  /\ sent = 1
  /\ message = [type |-> "error", text |-> "load failed"]
  /\ ~showStopLossModal
  /\ ~savingStopLoss

\* The step is the callback of a timer.
TimerFires == timers' = timers - 1

(* C17: a timer started by an earlier showMessage call never clears the message
   of a later call.  The timers all have the same delay, so they fire in the
   order of their calls; a message on display was set by the latest call, whose
   timer is the newest of the pending ones.  The timer that fires is the oldest
   one: it is the timer of the message on display exactly when it is the only
   one pending. *)
C17_OwnTimerClears ==
  [][(TimerFires /\ message # NoMessage) => timers = 1]_vars

=============================================================================
